---- MODULE Spec2Model ----
(***************************************************************************)
(* Gate attendance of clockout-vision: the presence debounce of            *)
(* AttendanceModule (brain/modules/attendance/service.py), the onsite      *)
(* counter of RedisClient (brain/core/redis_client.py), the session and    *)
(* daily-summary tables (brain/models/attendance.py) and the routing of    *)
(* EventProcessor.store_event (brain/workers/event_processor.py).          *)
(*                                                                         *)
(* Time is counted in half seconds.  Redis expiry runs on the delivery     *)
(* clock `now`; dwell is computed from the frame times the events carry.   *)
(***************************************************************************)
EXTENDS Integers, Sequences, FiniteSets, TLC

VARIABLES
    now,           \* wall clock (half seconds): Redis expiry, utcnow(), date.today()
    redis,         \* the Redis keyspace: key -> [value, expire_at]
    sessions,      \* table attendance_sessions, row i has id i
    summaries,     \* table attendance_daily_summary: day -> row
    latest_event,  \* the newest row of table events (id 0: the table is empty)
    new_count,     \* the count _record_entry/_record_exit logged last
    raised,        \* the exception store_event logged for the newest message
    reachable,     \* the Redis server answers
    calls,         \* the calls of RedisClient's counter methods that run side by
                   \* side: caller -> [op, count, pc, ret]
    observed,      \* what the newest get_onsite_count of a reader returned
    handlers       \* the calls of _handle_zone_entry that run side by side:
                   \* worker -> [pc, event, zone_duration, loaded, summary, found]

vars ==
    <<now, redis, sessions, summaries, latest_event, new_count, raised, reachable,
      calls, observed, handlers>>

----------------------------------------------------------------------------
(* Bounds of the model *)

MaxSlot == 2      \* delivery instants lie in slots 0..MaxSlot, which start 0 s, 15 s,
                  \* 60 s, 135 s, ... into the run
MaxFine == 2      \* ... at the first 1+MaxFine of the offsets 0 s, 0.5 s, 1.5 s, 3 s, ...
MaxEvents == 5    \* rows the events table may hold
MaxSet == 2       \* set_onsite_count is called with -1..MaxSet
MaxEntrySeconds == 1      \* sessions of SpecDuration are entered at 0..MaxEntrySeconds s
MaxDurationSeconds == 90  \* ... and last 0..MaxDurationSeconds whole seconds
MaxCallers == 2           \* callers of the counter methods that run side by side
MaxWorkers == 2           \* event processors that run side by side

----------------------------------------------------------------------------
(* Configuration and literals of the program, in half seconds *)

enabled == TRUE
gate_zone == "gate_entrance"
gate_camera == "test_camera"
min_zone_duration == 2
cooldown_seconds == 30
zone_entry_ttl == 60
counted_ttl == 120
minute == 120
NULL == -1             \* a NULL column; also "no expiry" of a Redis key
NULLSTR == "NULL"      \* a NULL string column
active == "active"
completed == "completed"
abandoned == "abandoned"

\* the instants at which messages are delivered and clocks are read
SlotStart(a) == a * a * cooldown_seconds
Instants == {SlotStart(a) + (b * (b + 1)) \div 2 : a \in 0..MaxSlot, b \in 0..MaxFine}

\* date.today(): the run starts on day 0; midnight is the start of the last slot
midnight == SlotStart(MaxSlot)
today == IF now < midnight THEN 0 ELSE 1

TrackerIds == {"d1", "d2"}
NoId == ""             \* the payload carries no tracker id (None or "")

----------------------------------------------------------------------------
(* Redis primitives *)

Put(f, k, v) == [x \in DOMAIN f \cup {k} |-> IF x = k THEN v ELSE f[x]]
Del(f, k) == [x \in DOMAIN f \ {k} |-> f[x]]

redis_exists(r, key) == key \in DOMAIN r
\* the key is written without an expiry
redis_setex_persistent(r, key, ttl, value) == Put(r, key, [value |-> value, expire_at |-> NULL])

redis_setex(r, key, ttl, value) == Put(r, key, [value |-> value, expire_at |-> now + ttl])
redis_set(r, key, value) == Put(r, key, [value |-> value, expire_at |-> NULL])
redis_delete(r, key) == Del(r, key)
\* keys whose expiry has passed at time t are gone
redis_expire(r, t) ==
    LET live == {k \in DOMAIN r : r[k].expire_at = NULL \/ r[k].expire_at > t}
    IN [k \in live |-> r[k]]

----------------------------------------------------------------------------
(* RedisClient: the onsite counter *)

onsite_key == "attendance:onsite_count"

get_onsite_count(r) == IF redis_exists(r, onsite_key) THEN r[onsite_key].value ELSE 0

\* INCR: a missing key counts as 0; the key keeps its (absent) expiry
redis_incr(r, key) == redis_set(r, key, (IF redis_exists(r, key) THEN r[key].value ELSE 0) + 1)
redis_decr(r, key) == redis_set(r, key, (IF redis_exists(r, key) THEN r[key].value ELSE 0) - 1)

\* each returns [redis, ret]
increment_onsite(r) ==
    LET r1 == redis_incr(r, onsite_key) IN [redis |-> r1, ret |-> r1[onsite_key].value]

\* DECR without the floor
decrement_onsite_unclamped(r) ==
    LET r1 == redis_decr(r, onsite_key) IN [redis |-> r1, ret |-> r1[onsite_key].value]

decrement_onsite(r) ==
    LET r1 == redis_decr(r, onsite_key)
        count == r1[onsite_key].value
    IN IF count < 0
       THEN [redis |-> redis_set(r1, onsite_key, 0), ret |-> 0]
       ELSE [redis |-> r1, ret |-> count]

Max(a, b) == IF a >= b THEN a ELSE b

\* the count is stored as it is given
set_onsite_count_to_unclamped(r, count) == redis_set(r, onsite_key, count)

set_onsite_count_to(r, count) == redis_set(r, onsite_key, Max(0, count))

----------------------------------------------------------------------------
(* Rows *)

NoEvent ==
    [id |-> 0, timestamp |-> 0, camera_id |-> NULLSTR, object_type |-> NULLSTR,
     frigate_event_id |-> NoId, zones |-> {}]

\* Event(...) of store_event: the row the payload is normalised to
Event(id, payload) ==
    [id |-> id, timestamp |-> payload.frame_time, camera_id |-> payload.camera,
     object_type |-> payload.label, frigate_event_id |-> payload.id,
     zones |-> payload.current_zones]

\* AttendanceSession(...) of _record_entry, with the defaults of its columns
AttendanceSession(id, event) ==
    [id |-> id, entry_time |-> event.timestamp, entry_camera |-> event.camera_id,
     entry_event_id |-> event.id, exit_time |-> NULL, exit_camera |-> NULLSTR,
     exit_event_id |-> NULL, duration_minutes |-> NULL, status |-> active]

\* AttendanceDailySummary(...) of _update_daily_summary, with its column defaults
AttendanceDailySummary ==
    [total_entries |-> 0, total_exits |-> 0, current_onsite |-> 0,
     total_person_minutes |-> 0, peak_onsite |-> 0, peak_time |-> NULL]

\* int(x / y): truncation towards zero
TruncDiv(x, y) == IF x >= 0 THEN x \div y ELSE -((-x) \div y)

\* minutes rounded to the nearest instead of truncated
calculate_duration_rounded(s) ==
    IF s.exit_time # NULL /\ s.entry_time # NULL
    THEN [s EXCEPT !.duration_minutes =
              TruncDiv(2 * (s.exit_time - s.entry_time) + minute, 2 * minute)]
    ELSE s

\* the duration is left uncomputed
calculate_duration_unset(s) == s

calculate_duration(s) ==
    IF s.exit_time # NULL /\ s.entry_time # NULL
    THEN [s EXCEPT !.duration_minutes = TruncDiv(s.exit_time - s.entry_time, minute)]
    ELSE s

----------------------------------------------------------------------------
(* AttendanceModule.  Each method maps the stores it may touch,            *)
(* st = [redis, sessions, summaries, new_count], to their new values.      *)

\* the fallback id is the same for every event
detection_id_shared(event) ==
    IF event.frigate_event_id # NoId
    THEN event.frigate_event_id
    ELSE "event_"

detection_id(event) ==
    IF event.frigate_event_id # NoId
    THEN event.frigate_event_id
    ELSE "event_" \o ToString(event.id)

detection_key(event) ==
    "detection_" \o (IF event.frigate_event_id # NoId
                     THEN event.frigate_event_id
                     ELSE ToString(event.id))

zone_entry_key(event) ==
    "attendance:zone_entry:" \o gate_camera \o ":" \o detection_id(event)
counted_key(event, action) == "attendance:counted:" \o action \o ":" \o detection_id(event)
cooldown_key(key) == "attendance:cooldown:" \o key

\* the entry timestamp is overwritten by every in-zone event
_track_zone_presence_refresh(st, event) ==
    [st EXCEPT !.redis = redis_setex(@, zone_entry_key(event), zone_entry_ttl,
                                     event.timestamp)]

_track_zone_presence(st, event) ==
    IF ~redis_exists(st.redis, zone_entry_key(event))
    THEN [st EXCEPT !.redis = redis_setex(@, zone_entry_key(event), zone_entry_ttl,
                                          event.timestamp)]
    ELSE st

_get_zone_duration(st, event) ==
    IF ~redis_exists(st.redis, zone_entry_key(event))
    THEN 0
    ELSE event.timestamp - st.redis[zone_entry_key(event)].value

_clear_zone_tracking(st, event) ==
    [st EXCEPT !.redis = redis_delete(@, zone_entry_key(event))]

\* the marker is never consulted
_was_counted_never(st, event, action) == FALSE

_was_counted(st, event, action) == redis_exists(st.redis, counted_key(event, action))

_mark_counted(st, event, action) ==
    [st EXCEPT !.redis = redis_setex(@, counted_key(event, action), counted_ttl, 1)]

_is_in_cooldown(st, key) == redis_exists(st.redis, cooldown_key(key))

\* the cooldown outlasts the markers
_set_cooldown_long(st, key) ==
    [st EXCEPT !.redis = redis_setex(@, cooldown_key(key), counted_ttl + cooldown_seconds, 1)]

_set_cooldown(st, key) ==
    [st EXCEPT !.redis = redis_setex(@, cooldown_key(key), cooldown_seconds, 1)]

\* current_onsite is accumulated from the totals instead of read from Redis
_update_daily_summary_accumulates(st, action) ==
    LET summary == IF today \in DOMAIN st.summaries
                   THEN st.summaries[today]
                   ELSE AttendanceDailySummary
        counted == IF action = "entry"
                   THEN [summary EXCEPT !.total_entries = @ + 1]
                   ELSE [summary EXCEPT !.total_exits = @ + 1]
        synced == [counted EXCEPT !.current_onsite = counted.total_entries - counted.total_exits]
        peaked == IF synced.current_onsite > synced.peak_onsite
                  THEN [synced EXCEPT !.peak_onsite = synced.current_onsite,
                                      !.peak_time = now]
                  ELSE synced
    IN [st EXCEPT !.summaries = Put(@, today, peaked)]

\* the peak follows the current count instead of its maximum
_update_daily_summary_peak_follows(st, action) ==
    LET summary == IF today \in DOMAIN st.summaries
                   THEN st.summaries[today]
                   ELSE AttendanceDailySummary
        counted == IF action = "entry"
                   THEN [summary EXCEPT !.total_entries = @ + 1]
                   ELSE [summary EXCEPT !.total_exits = @ + 1]
        synced == [counted EXCEPT !.current_onsite = get_onsite_count(st.redis)]
        peaked == [synced EXCEPT !.peak_onsite = synced.current_onsite, !.peak_time = now]
    IN [st EXCEPT !.summaries = Put(@, today, peaked)]

\* current_onsite is stepped from its previous value instead of read from Redis
_update_daily_summary_steps(st, action) ==
    LET summary == IF today \in DOMAIN st.summaries
                   THEN st.summaries[today]
                   ELSE AttendanceDailySummary
        counted == IF action = "entry"
                   THEN [summary EXCEPT !.total_entries = @ + 1, !.current_onsite = @ + 1]
                   ELSE [summary EXCEPT !.total_exits = @ + 1,
                                        !.current_onsite = Max(0, @ - 1)]
        peaked == IF counted.current_onsite > counted.peak_onsite
                  THEN [counted EXCEPT !.peak_onsite = counted.current_onsite,
                                       !.peak_time = now]
                  ELSE counted
    IN [st EXCEPT !.summaries = Put(@, today, peaked)]

\* the peak is never raised
_update_daily_summary_peak_unset(st, action) ==
    LET summary == IF today \in DOMAIN st.summaries
                   THEN st.summaries[today]
                   ELSE AttendanceDailySummary
        counted == IF action = "entry"
                   THEN [summary EXCEPT !.total_entries = @ + 1]
                   ELSE IF action = "exit"
                   THEN [summary EXCEPT !.total_exits = @ + 1]
                   ELSE summary
        synced == [counted EXCEPT !.current_onsite = get_onsite_count(st.redis)]
    IN [st EXCEPT !.summaries = Put(@, today, synced)]

_update_daily_summary(st, action) ==
    LET summary == IF today \in DOMAIN st.summaries
                   THEN st.summaries[today]
                   ELSE AttendanceDailySummary
        counted == IF action = "entry"
                   THEN [summary EXCEPT !.total_entries = @ + 1]
                   ELSE IF action = "exit"
                   THEN [summary EXCEPT !.total_exits = @ + 1]
                   ELSE summary
        synced == [counted EXCEPT !.current_onsite = get_onsite_count(st.redis)]
        peaked == IF synced.current_onsite > synced.peak_onsite
                  THEN [synced EXCEPT !.peak_onsite = synced.current_onsite,
                                      !.peak_time = now]
                  ELSE synced
    IN [st EXCEPT !.summaries = Put(@, today, peaked)]

\* a session is opened only while no other session is active
_record_entry_unique(st, event) ==
    IF \E i \in 1..Len(st.sessions) : st.sessions[i].status = active
    THEN st
    ELSE LET session == AttendanceSession(Len(st.sessions) + 1, event)
             inc == increment_onsite(st.redis)
         IN _update_daily_summary(
                [st EXCEPT !.sessions = Append(@, session),
                           !.redis = inc.redis,
                           !.new_count = inc.ret],
                "entry")

_record_entry(st, event) ==
    LET session == AttendanceSession(Len(st.sessions) + 1, event)
        inc == increment_onsite(st.redis)
    IN _update_daily_summary(
           [st EXCEPT !.sessions = Append(@, session),
                      !.redis = inc.redis,
                      !.new_count = inc.ret],
           "entry")

\* the oldest active session is matched instead of the newest
most_recent_active_oldest(rows) ==
    LET act == {i \in 1..Len(rows) : rows[i].status = active}
        low == {i \in act : \A j \in act : rows[j].entry_time >= rows[i].entry_time}
    IN IF act = {} THEN {0} ELSE low

\* the query does not filter by status
most_recent_session(rows) ==
    LET top == {i \in 1..Len(rows) : \A j \in 1..Len(rows) : rows[j].entry_time <= rows[i].entry_time}
    IN IF rows = << >> THEN {0} ELSE top

\* The rows the query of _record_exit may return first: the active sessions
\* of greatest entry_time (the order among equal entry_times is the
\* database's choice); {0} when no session is active.
most_recent_active(rows) ==
    LET act == {i \in 1..Len(rows) : rows[i].status = active}
        top == {i \in act : \A j \in act : rows[j].entry_time <= rows[i].entry_time}
    IN IF act = {} THEN {0} ELSE top

\* an exit without an active session is dropped
_record_exit_requires_session(st, event, first) ==
    IF first = 0
    THEN st
    ELSE LET closed == [st EXCEPT !.sessions[first] =
                            calculate_duration([@ EXCEPT !.exit_time = event.timestamp,
                                                          !.exit_camera = event.camera_id,
                                                          !.exit_event_id = event.id,
                                                          !.status = completed])]
             dec == decrement_onsite(closed.redis)
         IN _update_daily_summary(
                [closed EXCEPT !.redis = dec.redis, !.new_count = dec.ret],
                "exit")

_record_exit(st, event, first) ==
    LET closed == IF first # 0
                  THEN [st EXCEPT !.sessions[first] =
                            calculate_duration([@ EXCEPT !.exit_time = event.timestamp,
                                                          !.exit_camera = event.camera_id,
                                                          !.exit_event_id = event.id,
                                                          !.status = completed])]
                  ELSE st
        dec == decrement_onsite(closed.redis)
    IN _update_daily_summary(
           [closed EXCEPT !.redis = dec.redis, !.new_count = dec.ret],
           "exit")

\* the entry is recorded without waiting for the dwell
_handle_zone_entry_no_dwell(st, event) ==
    IF _is_in_cooldown(st, detection_key(event))
    THEN st
    ELSE LET tracked == _track_zone_presence(st, event)
         IN IF ~_was_counted(tracked, event, "entry")
            THEN _set_cooldown(
                     _mark_counted(_record_entry(tracked, event), event, "entry"),
                     detection_key(event))
            ELSE tracked

\* the presence is tracked before the cooldown is consulted
_handle_zone_entry_tracks_first(st, event) ==
    LET tracked == _track_zone_presence(st, event)
        zone_duration == _get_zone_duration(tracked, event)
    IN IF _is_in_cooldown(st, detection_key(event))
       THEN tracked
       ELSE IF zone_duration >= min_zone_duration /\ ~_was_counted(tracked, event, "entry")
       THEN _set_cooldown(
                _mark_counted(_record_entry(tracked, event), event, "entry"),
                detection_key(event))
       ELSE tracked

_handle_zone_entry(st, event) ==
    IF _is_in_cooldown(st, detection_key(event))
    THEN st
    ELSE LET tracked == _track_zone_presence(st, event)
             zone_duration == _get_zone_duration(tracked, event)
         IN IF zone_duration >= min_zone_duration /\ ~_was_counted(tracked, event, "entry")
            THEN _set_cooldown(
                     _mark_counted(_record_entry(tracked, event), event, "entry"),
                     detection_key(event))
            ELSE tracked

\* get_active_sessions: the lists the query may return, as lists of row ids:
\* the active rows, latest entry_time first (rows of equal entry_time come
\* in the database's order)
get_active_sessions(rows) ==
    LET act == {i \in 1..Len(rows) : rows[i].status = active}
    IN {q \in [1..Cardinality(act) -> act] :
           /\ \A a, b \in 1..Cardinality(act) : a # b => q[a] # q[b]
           /\ \A a, b \in 1..Cardinality(act) :
                  a < b => rows[q[a]].entry_time >= rows[q[b]].entry_time}

\* the presence record is deleted before the dwell is read
_handle_zone_exit_clears_first(st, event, first) ==
    LET cleared == _clear_zone_tracking(st, event)
        zone_duration == _get_zone_duration(cleared, event)
    IN IF zone_duration >= min_zone_duration /\ ~_was_counted(cleared, event, "exit")
       THEN _mark_counted(_record_exit(cleared, event, first), event, "exit")
       ELSE cleared

\* the presence record is deleted only when an exit is counted
_handle_zone_exit_clears_counted(st, event, first) ==
    LET zone_duration == _get_zone_duration(st, event)
    IN IF zone_duration >= min_zone_duration /\ ~_was_counted(st, event, "exit")
       THEN _clear_zone_tracking(_mark_counted(_record_exit(st, event, first), event, "exit"),
                                 event)
       ELSE st

\* an exit is recorded only for a detection id whose entry marker is alive
_handle_zone_exit_requires_entry(st, event, first) ==
    LET zone_duration == _get_zone_duration(st, event)
        counted == IF /\ zone_duration >= min_zone_duration
                      /\ ~_was_counted(st, event, "exit")
                      /\ _was_counted(st, event, "entry")
                   THEN _mark_counted(_record_exit(st, event, first), event, "exit")
                   ELSE st
    IN _clear_zone_tracking(counted, event)

\* the exit marker is written but never consulted
_handle_zone_exit_no_marker(st, event, first) ==
    LET zone_duration == _get_zone_duration(st, event)
        counted == IF zone_duration >= min_zone_duration
                   THEN _mark_counted(_record_exit(st, event, first), event, "exit")
                   ELSE st
    IN _clear_zone_tracking(counted, event)

_handle_zone_exit(st, event, first) ==
    LET zone_duration == _get_zone_duration(st, event)
        counted == IF zone_duration >= min_zone_duration /\ ~_was_counted(st, event, "exit")
                   THEN _mark_counted(_record_exit(st, event, first), event, "exit")
                   ELSE st
    IN _clear_zone_tracking(counted, event)

\* events of every camera are taken for gate events
process_event_any_camera(st, event, first) ==
    IF ~enabled
    THEN st
    ELSE IF event.object_type # "person"
    THEN st
    ELSE IF gate_zone \in event.zones
    THEN _handle_zone_entry(st, event)
    ELSE _handle_zone_exit(st, event, first)

process_event(st, event, first) ==
    IF ~enabled
    THEN st
    ELSE IF event.object_type # "person"
    THEN st
    ELSE IF event.camera_id # gate_camera
    THEN st
    ELSE IF gate_zone \in event.zones
    THEN _handle_zone_entry(st, event)
    ELSE _handle_zone_exit(st, event, first)

----------------------------------------------------------------------------
(* The same methods when a call fails.  Nothing in the module catches an   *)
(* exception: it leaves every method on the way up to store_event, which   *)
(* logs it.  Each operator returns [st, raised]: the stores as the         *)
(* exception (or the return) leaves them, and the exception ("none": the   *)
(* method returned).                                                       *)

\* the calls that may fail (redis_unreachable, every Redis command of the
\* event, is not among them: it is what happens while ~reachable):
\*   session_commit     the commit of the session in _record_entry/_record_exit
\*   counter            the INCR/DECR of increment_onsite/decrement_onsite
\*   counter_clamp      the SET 0 of decrement_onsite
\*   summary_commit     the commit of _update_daily_summary
Faults ==
    {"none", "session_commit", "counter", "counter_clamp", "summary_commit"}

Ok(st) == [st |-> st, raised |-> "none"]
Raise(st, fault) == [st |-> st, raised |-> fault]

_update_daily_summary_raising(st, action, fault) ==
    IF fault = "summary_commit"
    THEN Raise(st, fault)
    ELSE Ok(_update_daily_summary(st, action))

_record_entry_raising(st, event, fault) ==
    IF fault = "session_commit"
    THEN Raise(st, fault)
    ELSE LET session == AttendanceSession(Len(st.sessions) + 1, event)
             added == [st EXCEPT !.sessions = Append(@, session)]
             inc == increment_onsite(st.redis)
         IN IF fault = "counter"
            THEN Raise(added, fault)
            ELSE _update_daily_summary_raising(
                     [added EXCEPT !.redis = inc.redis, !.new_count = inc.ret],
                     "entry", fault)

_record_exit_raising(st, event, first, fault) ==
    IF first # 0 /\ fault = "session_commit"
    THEN Raise(st, fault)
    ELSE LET closed == IF first # 0
                       THEN [st EXCEPT !.sessions[first] =
                                 calculate_duration([@ EXCEPT !.exit_time = event.timestamp,
                                                               !.exit_camera = event.camera_id,
                                                               !.exit_event_id = event.id,
                                                               !.status = completed])]
                       ELSE st
             decremented == redis_decr(closed.redis, onsite_key)
             dec == decrement_onsite(closed.redis)
         IN IF fault = "counter"
            THEN Raise(closed, fault)
            ELSE IF fault = "counter_clamp" /\ decremented[onsite_key].value < 0
            THEN Raise([closed EXCEPT !.redis = decremented], fault)
            ELSE _update_daily_summary_raising(
                     [closed EXCEPT !.redis = dec.redis, !.new_count = dec.ret],
                     "exit", fault)

\* a Redis error is swallowed and the lookup taken for "no record"
_handle_zone_entry_raising_swallows(st, event, fault) ==
    IF fault = "redis_unreachable"
    THEN Ok(st)
    ELSE IF _is_in_cooldown(st, detection_key(event))
    THEN Ok(st)
    ELSE LET tracked == _track_zone_presence(st, event)
             zone_duration == _get_zone_duration(tracked, event)
             recorded == _record_entry_raising(tracked, event, fault)
         IN IF zone_duration >= min_zone_duration /\ ~_was_counted(tracked, event, "entry")
            THEN IF recorded.raised # "none"
                 THEN recorded
                 ELSE Ok(_set_cooldown(_mark_counted(recorded.st, event, "entry"),
                                       detection_key(event)))
            ELSE Ok(tracked)

\* the markers are set before the entry is recorded
_handle_zone_entry_raising_marks_first(st, event, fault) ==
    IF fault = "redis_unreachable"
    THEN Raise(st, fault)
    ELSE IF _is_in_cooldown(st, detection_key(event))
    THEN Ok(st)
    ELSE LET tracked == _track_zone_presence(st, event)
             zone_duration == _get_zone_duration(tracked, event)
             marked == _set_cooldown(_mark_counted(tracked, event, "entry"),
                                     detection_key(event))
         IN IF zone_duration >= min_zone_duration /\ ~_was_counted(tracked, event, "entry")
            THEN _record_entry_raising(marked, event, fault)
            ELSE Ok(tracked)

_handle_zone_entry_raising(st, event, fault) ==
    IF fault = "redis_unreachable"
    THEN Raise(st, fault)
    ELSE IF _is_in_cooldown(st, detection_key(event))
    THEN Ok(st)
    ELSE LET tracked == _track_zone_presence(st, event)
             zone_duration == _get_zone_duration(tracked, event)
             recorded == _record_entry_raising(tracked, event, fault)
         IN IF zone_duration >= min_zone_duration /\ ~_was_counted(tracked, event, "entry")
            THEN IF recorded.raised # "none"
                 THEN recorded
                 ELSE Ok(_set_cooldown(_mark_counted(recorded.st, event, "entry"),
                                       detection_key(event)))
            ELSE Ok(tracked)

_handle_zone_exit_raising(st, event, first, fault) ==
    IF fault = "redis_unreachable"
    THEN Raise(st, fault)
    ELSE LET zone_duration == _get_zone_duration(st, event)
             recorded == _record_exit_raising(st, event, first, fault)
         IN IF zone_duration >= min_zone_duration /\ ~_was_counted(st, event, "exit")
            THEN IF recorded.raised # "none"
                 THEN recorded
                 ELSE Ok(_clear_zone_tracking(_mark_counted(recorded.st, event, "exit"),
                                              event))
            ELSE Ok(_clear_zone_tracking(st, event))

process_event_raising(st, event, first, fault) ==
    IF ~enabled
    THEN Ok(st)
    ELSE IF event.object_type # "person"
    THEN Ok(st)
    ELSE IF event.camera_id # gate_camera
    THEN Ok(st)
    ELSE IF gate_zone \in event.zones
    THEN _handle_zone_entry_raising(st, event, fault)
    ELSE _handle_zone_exit_raising(st, event, first, fault)

----------------------------------------------------------------------------
(* Inputs *)

EventTypes == {"new", "update", "end"}

\* The frame time of a message is that of the newest stored event (the same
\* frame delivered again, or a late delivery) or the time of delivery.
FrameTimes == {latest_event.timestamp, now}

\* person detections on the gate camera, in or out of the gate zone
GatePayloads(ids) ==
    [type : EventTypes, camera : {gate_camera}, label : {"person"},
     id : ids, current_zones : {{}, {gate_zone}}, frame_time : FrameTimes]

\* detections the attendance module is not about
OtherPayloads ==
    [type : {"update"}, camera : {gate_camera, "yard_camera"}, label : {"person", "car"},
     id : {"d1"}, current_zones : {{gate_zone}}, frame_time : FrameTimes]
    \ GatePayloads({"d1"})

\* the event processors, and one that processes no event
Workers == 1..MaxWorkers
NoHandler ==
    [pc |-> "idle", event |-> NoEvent, zone_duration |-> 0,
     loaded |-> AttendanceDailySummary, summary |-> AttendanceDailySummary, found |-> FALSE]

\* the callers of the counter methods, and a caller that has not called
Callers == 1..MaxCallers
NoCall == [op |-> "none", count |-> 0, pc |-> "idle", ret |-> NULL]

----------------------------------------------------------------------------
(* The state machine *)

Init ==
    /\ now = 0
    /\ redis = [k \in {} |-> [value |-> 0, expire_at |-> NULL]]
    /\ sessions = << >>
    /\ summaries = [d \in {} |-> AttendanceDailySummary]
    /\ latest_event = NoEvent
    /\ new_count = 0
    /\ raised = "none"
    /\ reachable = TRUE
    /\ calls = [c \in Callers |-> NoCall]
    /\ observed = 0
    /\ handlers = [w \in Workers |-> NoHandler]

\* EventProcessor.store_event for one message of frigate/events; `fault` is
\* the call that fails while the attendance module processes the event.  The
\* exception is caught and logged, what was committed before it stays.
store_event(payload, first, fault) ==
    IF payload.type \in {"new", "update"}
    THEN /\ latest_event.id < MaxEvents
         /\ LET event == Event(latest_event.id + 1, payload)
                st == [redis |-> redis, sessions |-> sessions,
                       summaries |-> summaries, new_count |-> new_count]
                out == IF payload.label # "person"
                       THEN Ok(st)
                       ELSE IF ~reachable
                       THEN process_event_raising(st, event, first, "redis_unreachable")
                       ELSE IF fault = "none"
                       THEN Ok(process_event(st, event, first))
                       ELSE process_event_raising(st, event, first, fault)
            IN /\ latest_event' = event
               /\ redis' = out.st.redis
               /\ sessions' = out.st.sessions
               /\ summaries' = out.st.summaries
               /\ new_count' = out.st.new_count
               /\ raised' = out.raised
         /\ UNCHANGED <<now, reachable, calls, observed, handlers>>
    ELSE UNCHANGED vars

\* EventProcessor.on_message, for the messages of `payloads` and the failing
\* calls of `faults`
on_message(payloads, faults) ==
    \E payload \in payloads, first \in most_recent_active(sessions), fault \in faults :
        store_event(payload, first, fault)

\* time passes; Redis drops the keys whose expiry is reached
Tick ==
    \E t \in Instants :
        /\ t > now
        /\ now' = t
        /\ redis' = redis_expire(redis, t)
        /\ UNCHANGED <<sessions, summaries, latest_event, new_count, raised, reachable, calls, observed, handlers>>

\* RedisClient.set_onsite_count(count)
set_onsite_count ==
    \E count \in -1..MaxSet :
        /\ redis' = set_onsite_count_to(redis, count)
        /\ UNCHANGED <<now, sessions, summaries, latest_event, new_count, raised, reachable, calls, observed, handlers>>

\* the gate: two tracked persons
Gate == on_message(GatePayloads(TrackerIds), {"none"})

Next == Gate \/ Tick

Spec == Init /\ [][Next]_vars

\* one tracked person among detections of other cameras and labels
Mixed == on_message(GatePayloads({"d1"}) \cup OtherPayloads, {"none"})

NextRouting == Mixed \/ Tick

SpecRouting == Init /\ [][NextRouting]_vars

\* one tracked person, and the counter set from outside
Single == on_message(GatePayloads({"d1"}), {"none"})

NextCounter == Single \/ Tick \/ set_onsite_count

SpecCounter == Init /\ [][NextCounter]_vars

\* one tracked person, and calls that fail
Failing == on_message({p \in GatePayloads({"d1"}) : p.type = "update"}, Faults)

NextFailing == Failing \/ Tick

SpecFailing == Init /\ [][NextFailing]_vars

\* the Redis server goes away and comes back
Outage ==
    /\ reachable
    /\ reachable' = FALSE
    /\ UNCHANGED <<now, redis, sessions, summaries, latest_event, new_count, raised, calls, observed, handlers>>

Recovery ==
    /\ ~reachable
    /\ reachable' = TRUE
    /\ UNCHANGED <<now, redis, sessions, summaries, latest_event, new_count, raised, calls, observed, handlers>>

\* one tracked person, and a Redis server that may not answer
NextOutage == Single \/ Tick \/ Outage \/ Recovery

SpecOutage == Init /\ [][NextOutage]_vars

\* time passes until a key's expiry is reached; Redis drops the keys whose
\* expiry is reached by then
Expire ==
    \E k \in DOMAIN redis :
        /\ redis[k].expire_at # NULL
        /\ now' = redis[k].expire_at
        /\ redis' = redis_expire(redis, now')
        /\ UNCHANGED <<sessions, summaries, latest_event, new_count, raised, reachable,
                       calls, observed, handlers>>

\* one tracked person, and time that also passes from expiry to expiry
NextExpiry == Single \/ Tick \/ Expire

SpecExpiry == Init /\ [][NextExpiry]_vars

\* Redis expires every key that has an expiry
SpecExpiryFair == SpecExpiry /\ WF_vars(Expire)

\* one tracked person that stays in the gate zone: in-zone events only
Linger ==
    on_message({p \in GatePayloads({"d1"}) : p.current_zones = {gate_zone}}, {"none"})

NextLinger == Linger \/ Tick \/ Expire

SpecLinger == Init /\ [][NextLinger]_vars

\* person detections at the gate that carry no tracker id
Untracked == on_message(GatePayloads({NoId}), {"none"})

NextFallback == Untracked \/ Tick

SpecFallback == Init /\ [][NextFallback]_vars

\* RedisClient's counter methods called side by side.  A step is one Redis
\* command: the server runs commands one at a time, a method of several
\* commands can be interleaved with the commands of other callers.
increment_onsite_call(c) ==
    /\ calls[c].pc = "idle"
    /\ LET inc == increment_onsite(redis)
       IN /\ redis' = inc.redis
          /\ calls' = [calls EXCEPT ![c] = [op |-> "increment", count |-> 0,
                                             pc |-> "done", ret |-> inc.ret]]
    /\ UNCHANGED <<now, sessions, summaries, latest_event, new_count, raised, reachable,
                   observed, handlers>>

\* decrement_onsite, its DECR
decrement_onsite_decr(c) ==
    /\ calls[c].pc = "idle"
    /\ redis' = redis_decr(redis, onsite_key)
    /\ calls' = [calls EXCEPT ![c] = [op |-> "decrement", count |-> redis'[onsite_key].value,
                                       pc |-> "decremented", ret |-> NULL]]
    /\ UNCHANGED <<now, sessions, summaries, latest_event, new_count, raised, reachable,
                   observed, handlers>>

\* decrement_onsite, from the test of the DECR's result on
decrement_onsite_clamp(c) ==
    /\ calls[c].pc = "decremented"
    /\ IF calls[c].count < 0
       THEN /\ redis' = redis_set(redis, onsite_key, 0)
            /\ calls' = [calls EXCEPT ![c].pc = "done", ![c].ret = 0]
       ELSE /\ redis' = redis
            /\ calls' = [calls EXCEPT ![c].pc = "done", ![c].ret = calls[c].count]
    /\ UNCHANGED <<now, sessions, summaries, latest_event, new_count, raised, reachable,
                   observed, handlers>>

set_onsite_count_call(c) ==
    /\ calls[c].pc = "idle"
    /\ \E count \in -1..MaxSet :
           /\ redis' = set_onsite_count_to(redis, count)
           /\ calls' = [calls EXCEPT ![c] = [op |-> "set", count |-> count,
                                              pc |-> "done", ret |-> NULL]]
    /\ UNCHANGED <<now, sessions, summaries, latest_event, new_count, raised, reachable,
                   observed, handlers>>

\* a reader (the query API) calls get_onsite_count
get_onsite_count_call ==
    /\ observed' = get_onsite_count(redis)
    /\ UNCHANGED <<now, redis, sessions, summaries, latest_event, new_count, raised,
                   reachable, calls, handlers>>

NextConcurrent ==
    \/ \E c \in Callers :
           \/ increment_onsite_call(c)
           \/ decrement_onsite_decr(c)
           \/ decrement_onsite_clamp(c)
           \/ set_onsite_count_call(c)
    \/ get_onsite_count_call

SpecConcurrent == Init /\ [][NextConcurrent]_vars

\* AttendanceSession.calculate_duration on its own: a session of every
\* duration in whole seconds, its exit columns set as _record_exit sets them,
\* and the call that computes its duration
InitDuration ==
    /\ now = 0
    /\ redis = [k \in {} |-> [value |-> 0, expire_at |-> NULL]]
    /\ \E entry \in 0..MaxEntrySeconds, seconds \in 0..MaxDurationSeconds :
           sessions = << [AttendanceSession(1, NoEvent) EXCEPT
                             !.entry_time = 2 * entry,
                             !.exit_time = 2 * (entry + seconds),
                             !.exit_camera = gate_camera,
                             !.status = completed] >>
    /\ summaries = [d \in {} |-> AttendanceDailySummary]
    /\ latest_event = NoEvent
    /\ new_count = 0
    /\ raised = "none"
    /\ reachable = TRUE
    /\ calls = [c \in Callers |-> NoCall]
    /\ observed = 0
    /\ handlers = [w \in Workers |-> NoHandler]

calculate_duration_call ==
    /\ sessions[1].duration_minutes = NULL
    /\ sessions' = << calculate_duration(sessions[1]) >>
    /\ UNCHANGED <<now, redis, summaries, latest_event, new_count, raised, reachable, calls, observed, handlers>>

NextDuration == calculate_duration_call

SpecDuration == InitDuration /\ [][NextDuration]_vars

\* Two event processors side by side, each in _handle_zone_entry for one
\* in-zone event.  A step is one Redis command or one database statement;
\* the servers run them one at a time, nothing in the module keeps the steps
\* of one call together.  The run starts half a minute into the day: the
\* persons of `present` were seen in the zone at 1.5 s, and with `prior` an
\* out-of-zone event of d1 at 1.5 s, 1.5 s after its first in-zone event,
\* has recorded an exit without a session before that.
InitParallel ==
    /\ now = 30
    /\ \E prior \in BOOLEAN, present \in {{"d1"}, {"d1", "d2"}} :
         LET seen == [k \in {"attendance:zone_entry:" \o gate_camera \o ":" \o d : d \in present}
                         |-> [value |-> 3, expire_at |-> 3 + zone_entry_ttl]]
             exited == ("attendance:counted:exit:d1" :> [value |-> 1, expire_at |-> 3 + counted_ttl])
                       @@ (onsite_key :> [value |-> 0, expire_at |-> NULL])
             newest == IF "d2" \in present THEN "d2" ELSE "d1"
             stored == Cardinality(present) + (IF prior THEN 2 ELSE 0)
         IN /\ redis = IF prior THEN seen @@ exited ELSE seen
            /\ summaries = IF prior
                           THEN (0 :> [AttendanceDailySummary EXCEPT !.total_exits = 1])
                           ELSE [d \in {} |-> AttendanceDailySummary]
            /\ latest_event = Event(stored,
                                    [type |-> "update", camera |-> gate_camera,
                                     label |-> "person", id |-> newest,
                                     current_zones |-> {gate_zone}, frame_time |-> 3])
    /\ sessions = << >>
    /\ new_count = 0
    /\ raised = "none"
    /\ reachable = TRUE
    /\ calls = [c \in Callers |-> NoCall]
    /\ observed = 0
    /\ handlers = [w \in Workers |-> NoHandler]

\* store_event up to the call of process_event, which routes the in-zone
\* event of the gate camera to _handle_zone_entry
store_event_begin(w) ==
    /\ handlers[w].pc = "idle"
    /\ \E payload \in GatePayloads(TrackerIds) :
           /\ payload.type = "update"
           /\ payload.current_zones = {gate_zone}
           /\ latest_event' = Event(latest_event.id + 1, payload)
           /\ handlers' = [handlers EXCEPT ![w].pc = "cooldown", ![w].event = latest_event']
    /\ UNCHANGED <<now, redis, sessions, summaries, new_count, raised, reachable,
                   calls, observed>>

\* _handle_zone_entry, the EXISTS of _is_in_cooldown
_is_in_cooldown_exists(w) ==
    /\ handlers[w].pc = "cooldown"
    /\ handlers' = [handlers EXCEPT ![w].pc =
                       IF redis_exists(redis, cooldown_key(detection_key(handlers[w].event)))
                       THEN "done" ELSE "presence"]
    /\ UNCHANGED <<now, redis, sessions, summaries, latest_event, new_count, raised,
                   reachable, calls, observed>>

\* _track_zone_presence, its EXISTS
_track_zone_presence_exists(w) ==
    /\ handlers[w].pc = "presence"
    /\ handlers' = [handlers EXCEPT ![w].pc =
                       IF redis_exists(redis, zone_entry_key(handlers[w].event))
                       THEN "duration" ELSE "track"]
    /\ UNCHANGED <<now, redis, sessions, summaries, latest_event, new_count, raised,
                   reachable, calls, observed>>

\* _track_zone_presence, its SETEX
_track_zone_presence_setex(w) ==
    /\ handlers[w].pc = "track"
    /\ redis' = redis_setex(redis, zone_entry_key(handlers[w].event), zone_entry_ttl,
                            handlers[w].event.timestamp)
    /\ handlers' = [handlers EXCEPT ![w].pc = "duration"]
    /\ UNCHANGED <<now, sessions, summaries, latest_event, new_count, raised,
                   reachable, calls, observed>>

\* _get_zone_duration, and the test of the dwell
_get_zone_duration_get(w) ==
    /\ handlers[w].pc = "duration"
    /\ LET event == handlers[w].event
           zone_duration == IF ~redis_exists(redis, zone_entry_key(event))
                            THEN 0
                            ELSE event.timestamp - redis[zone_entry_key(event)].value
       IN handlers' = [handlers EXCEPT ![w].zone_duration = zone_duration,
                                       ![w].pc = IF zone_duration >= min_zone_duration
                                                 THEN "counted" ELSE "done"]
    /\ UNCHANGED <<now, redis, sessions, summaries, latest_event, new_count, raised,
                   reachable, calls, observed>>

\* the EXISTS of _was_counted
_was_counted_exists(w) ==
    /\ handlers[w].pc = "counted"
    /\ handlers' = [handlers EXCEPT ![w].pc =
                       IF redis_exists(redis, counted_key(handlers[w].event, "entry"))
                       THEN "done" ELSE "session"]
    /\ UNCHANGED <<now, redis, sessions, summaries, latest_event, new_count, raised,
                   reachable, calls, observed>>

\* _record_entry, the commit of the session
_record_entry_commit(w) ==
    /\ handlers[w].pc = "session"
    /\ sessions' = Append(sessions, AttendanceSession(Len(sessions) + 1, handlers[w].event))
    /\ handlers' = [handlers EXCEPT ![w].pc = "increment"]
    /\ UNCHANGED <<now, redis, summaries, latest_event, new_count, raised,
                   reachable, calls, observed>>

\* _record_entry, increment_onsite
_record_entry_increment(w) ==
    /\ handlers[w].pc = "increment"
    /\ LET inc == increment_onsite(redis)
       IN /\ redis' = inc.redis
          /\ new_count' = inc.ret
    /\ handlers' = [handlers EXCEPT ![w].pc = "query"]
    /\ UNCHANGED <<now, sessions, summaries, latest_event, raised, reachable, calls, observed>>

\* _update_daily_summary, the query of today's row: the row as it is
\* committed now, or a new row
_update_daily_summary_query(w) ==
    /\ handlers[w].pc = "query"
    /\ LET found == today \in DOMAIN summaries
           loaded == IF found THEN summaries[today] ELSE AttendanceDailySummary
       IN handlers' = [handlers EXCEPT ![w].found = found, ![w].loaded = loaded,
                                       ![w].summary = loaded, ![w].pc = "current"]
    /\ UNCHANGED <<now, redis, sessions, summaries, latest_event, new_count, raised,
                   reachable, calls, observed>>

\* _update_daily_summary, from the increment of total_entries to the peak,
\* on the row as it was loaded; get_onsite_count is the one command
_update_daily_summary_count(w) ==
    /\ handlers[w].pc = "current"
    /\ LET counted == [handlers[w].summary EXCEPT !.total_entries = @ + 1]
           synced == [counted EXCEPT !.current_onsite = get_onsite_count(redis)]
           peaked == IF synced.current_onsite > synced.peak_onsite
                     THEN [synced EXCEPT !.peak_onsite = synced.current_onsite,
                                         !.peak_time = now]
                     ELSE synced
       IN handlers' = [handlers EXCEPT ![w].summary = peaked, ![w].pc = "commit"]
    /\ UNCHANGED <<now, redis, sessions, summaries, latest_event, new_count, raised,
                   reachable, calls, observed>>

\* The UPDATE of a commit sets the columns the session has changed since it
\* loaded the row, to the values it computed.
Flush(row, loaded, changed) ==
    [f \in DOMAIN row |-> IF changed[f] # loaded[f] THEN changed[f] ELSE row[f]]

\* _update_daily_summary, its commit: the UPDATE of the loaded row, or the
\* INSERT of the new one, which the unique date refuses when another
\* processor has inserted the day's row in between
_update_daily_summary_commit(w) ==
    /\ handlers[w].pc = "commit"
    /\ IF handlers[w].found
       THEN /\ summaries' = Put(summaries, today,
                                Flush(summaries[today], handlers[w].loaded,
                                      handlers[w].summary))
            /\ handlers' = [handlers EXCEPT ![w].pc = "mark"]
            /\ raised' = raised
       ELSE IF today \in DOMAIN summaries
       THEN /\ summaries' = summaries
            /\ handlers' = [handlers EXCEPT ![w].pc = "raised"]
            /\ raised' = "summary_commit"
       ELSE /\ summaries' = Put(summaries, today, handlers[w].summary)
            /\ handlers' = [handlers EXCEPT ![w].pc = "mark"]
            /\ raised' = raised
    /\ UNCHANGED <<now, redis, sessions, latest_event, new_count, reachable, calls, observed>>

\* the SETEX of _mark_counted
_mark_counted_setex(w) ==
    /\ handlers[w].pc = "mark"
    /\ redis' = redis_setex(redis, counted_key(handlers[w].event, "entry"), counted_ttl, 1)
    /\ handlers' = [handlers EXCEPT ![w].pc = "cool"]
    /\ UNCHANGED <<now, sessions, summaries, latest_event, new_count, raised,
                   reachable, calls, observed>>

\* the SETEX of _set_cooldown
_set_cooldown_setex(w) ==
    /\ handlers[w].pc = "cool"
    /\ redis' = redis_setex(redis, cooldown_key(detection_key(handlers[w].event)),
                            cooldown_seconds, 1)
    /\ handlers' = [handlers EXCEPT ![w].pc = "done"]
    /\ UNCHANGED <<now, sessions, summaries, latest_event, new_count, raised,
                   reachable, calls, observed>>

NextParallel ==
    \E w \in Workers :
        \/ store_event_begin(w)
        \/ _is_in_cooldown_exists(w)
        \/ _track_zone_presence_exists(w)
        \/ _track_zone_presence_setex(w)
        \/ _get_zone_duration_get(w)
        \/ _was_counted_exists(w)
        \/ _record_entry_commit(w)
        \/ _record_entry_increment(w)
        \/ _update_daily_summary_query(w)
        \/ _update_daily_summary_count(w)
        \/ _update_daily_summary_commit(w)
        \/ _mark_counted_setex(w)
        \/ _set_cooldown_setex(w)

SpecParallel == InitParallel /\ [][NextParallel]_vars

----------------------------------------------------------------------------
(* Vocabulary of the properties.  In a step that stores an event,         *)
(* latest_event' is the event the step processes.                          *)

Stored == latest_event'.id = latest_event.id + 1
GateEvent(e) == e.object_type = "person" /\ e.camera_id = gate_camera
InZone(e) == gate_zone \in e.zones
Count == get_onsite_count(redis)
Presence(e) == redis_exists(redis, zone_entry_key(e))
Marked(e, action) == redis_exists(redis, counted_key(e, action))
Cooling(e) == redis_exists(redis, cooldown_key(detection_key(e)))
Dwelt(e) ==
    /\ Presence(e)
    /\ e.timestamp - redis[zone_entry_key(e)].value >= min_zone_duration
NothingRecorded ==
    /\ sessions' = sessions
    /\ Count' = Count
    /\ summaries' = summaries
OneEntryRecorded(e) ==
    /\ Len(sessions') = Len(sessions) + 1
    /\ SubSeq(sessions', 1, Len(sessions)) = sessions
    /\ sessions'[Len(sessions')].status = active
    /\ sessions'[Len(sessions')].entry_event_id = e.id
    /\ Count' = Count + 1

----------------------------------------------------------------------------
(* C1 *)

\* C1 as stated, for the sequence made of the first two events ever stored:
\* both in the gate zone for one detection id, frame times a dwell of
\* min_zone_duration or more apart, both delivered within the 60 s of the
\* entry marker's TTL; then exactly one entry has been recorded.
C1_ExactlyOneEntry ==
    [][ ( /\ Stored
          /\ latest_event.id = 1
          /\ GateEvent(latest_event) /\ InZone(latest_event)
          /\ GateEvent(latest_event') /\ InZone(latest_event')
          /\ latest_event'.frigate_event_id = latest_event.frigate_event_id
          /\ latest_event'.timestamp - latest_event.timestamp >= min_zone_duration
          /\ now - latest_event.timestamp < counted_ttl )
        => ( Len(sessions') = 1 /\ Count' = 1 ) ]_vars

\* C1 (amended): an in-zone event of a detection id records exactly one entry
\* when it is delivered while the id's presence record exists, its frame time
\* is min_zone_duration or more past the record's entry timestamp and no entry
\* marker of the id is alive; every other in-zone event records nothing, so
\* at most one entry is recorded while the marker lives, however many events
\* are delivered.
C1_OneEntryWhilePresenceLives ==
    [][ ( Stored /\ GateEvent(latest_event') /\ InZone(latest_event') )
        => IF Dwelt(latest_event') /\ ~Marked(latest_event', "entry")
           THEN /\ OneEntryRecorded(latest_event')
                /\ redis_exists(redis', counted_key(latest_event', "entry"))
                /\ redis'[counted_key(latest_event', "entry")].expire_at = now + counted_ttl
           ELSE NothingRecorded ]_vars

\* one entry on record, and a later in-zone event of the same id, past the
\* cooldown, that the marker kept from being counted again
C1_Witness ==
    /\ Len(sessions) = 1
    /\ Count = 1
    /\ GateEvent(latest_event) /\ InZone(latest_event)
    /\ latest_event.frigate_event_id = "d1"
    /\ Marked(latest_event, "entry")
    /\ ~redis_exists(redis, "attendance:counted:entry:d2")
    /\ ~Cooling(latest_event)
    /\ Dwelt(latest_event)
    /\ latest_event.id > sessions[1].entry_event_id
    /\ latest_event.timestamp >= sessions[1].entry_time + cooldown_seconds

----------------------------------------------------------------------------
(* C3 *)

\* C3: when the newest event recorded an entry and its entry marker is set,
\* processing the identical event again (same detection id, zones and
\* timestamp) opens no session, leaves the counter and the summaries alone.
C3_ReplayIdempotent ==
    [][ ( /\ Stored
          /\ GateEvent(latest_event) /\ InZone(latest_event)
          /\ latest_event' = [latest_event EXCEPT !.id = @ + 1]
          /\ \E i \in 1..Len(sessions) : sessions[i].entry_event_id = latest_event.id
          /\ Marked(latest_event, "entry") )
        => NothingRecorded ]_vars

\* the event that recorded the only entry was processed again after the
\* cooldown had run out, with the presence record still there
C3_Witness ==
    /\ Len(sessions) = 1
    /\ Count = 1
    /\ GateEvent(latest_event) /\ InZone(latest_event)
    /\ latest_event.id = sessions[1].entry_event_id + 1
    /\ latest_event.timestamp = sessions[1].entry_time
    /\ Marked(latest_event, "entry")
    /\ \A d \in TrackerIds \ {latest_event.frigate_event_id} :
           ~redis_exists(redis, "attendance:counted:entry:" \o d)
    /\ ~Cooling(latest_event)
    /\ Dwelt(latest_event)

----------------------------------------------------------------------------
(* C2 *)

\* the step recorded an exit: it set the exit marker of the event's id
ExitFired ==
    /\ Stored
    /\ ~Marked(latest_event', "exit")
    /\ redis_exists(redis', counted_key(latest_event', "exit"))

\* C2: the stored onsite count, and what get_onsite_count returns, is never
\* negative, whatever the entries, exits (more exits than entries included)
\* and set_onsite_count calls; a decrement at a stored 0 stores and returns 0.
C2_CounterNeverNegative ==
    /\ [](/\ Count >= 0
          /\ redis_exists(redis, onsite_key) => redis[onsite_key].value >= 0)
    /\ [][ (ExitFired /\ Count = 0) => (Count' = 0 /\ new_count' = 0) ]_vars

\* more exits than entries on a day, and the counter at 0 after a decrement
\* that returned 0
C2_Witness ==
    /\ \E d \in DOMAIN summaries : summaries[d].total_exits > summaries[d].total_entries
    /\ redis_exists(redis, onsite_key)
    /\ Count = 0
    /\ new_count = 0

----------------------------------------------------------------------------
(* C4 *)

\* C4: the peak_onsite of a day's summary never decreases, and its peak_time
\* changes only in an update whose resynchronised current_onsite is strictly
\* above the previous peak_onsite (0 for a summary the update creates).
C4_PeakMonotone ==
    [][ /\ \A d \in DOMAIN summaries :
             /\ d \in DOMAIN summaries'
             /\ summaries'[d].peak_onsite >= summaries[d].peak_onsite
             /\ summaries'[d].peak_time # summaries[d].peak_time
                    => summaries'[d].current_onsite > summaries[d].peak_onsite
        /\ \A d \in DOMAIN summaries' \ DOMAIN summaries :
             /\ summaries'[d].peak_onsite >= 0
             /\ summaries'[d].peak_time # NULL => summaries'[d].current_onsite > 0 ]_vars

\* a day whose count has fallen below its peak, the peak and its time kept
C4_Witness ==
    \E d \in DOMAIN summaries :
        /\ summaries[d].peak_onsite = 2
        /\ summaries[d].current_onsite < summaries[d].peak_onsite
        /\ summaries[d].total_exits >= 1
        /\ summaries[d].peak_time # NULL

----------------------------------------------------------------------------
(* C5 *)

ActiveRows(rows) == {i \in 1..Len(rows) : rows[i].status = active}

\* C5: an exit recorded while exactly one session is active completes that
\* session: status completed, exit_time the event's timestamp,
\* duration_minutes the whole minutes from entry_time to exit_time, and the
\* session is in no list get_active_sessions may return.
C5_RoundTrip ==
    [][ \A i \in 1..Len(sessions) :
          ( ExitFired /\ ActiveRows(sessions) = {i} )
          => /\ Len(sessions') = Len(sessions)
             /\ sessions'[i].status = completed
             /\ sessions'[i].exit_time = latest_event'.timestamp
             /\ sessions'[i].entry_time = sessions[i].entry_time
             /\ sessions'[i].exit_time >= sessions'[i].entry_time
             /\ sessions'[i].duration_minutes # NULL
             /\ sessions'[i].duration_minutes * minute
                    <= sessions'[i].exit_time - sessions'[i].entry_time
             /\ sessions'[i].exit_time - sessions'[i].entry_time
                    < (sessions'[i].duration_minutes + 1) * minute
             /\ \A q \in get_active_sessions(sessions') :
                    \A a \in DOMAIN q : q[a] # i ]_vars

\* a session opened and closed a minute later
C5_Witness ==
    /\ Len(sessions) = 1
    /\ sessions[1].status = completed
    /\ sessions[1].duration_minutes = 1
    /\ sessions[1].exit_time - sessions[1].entry_time >= minute
    /\ get_active_sessions(sessions) = {<< >>}

----------------------------------------------------------------------------
(* C6 *)

\* C6: an event whose object type is not "person" or whose camera is not the
\* gate camera changes nothing: the Redis keys (presence, markers, cooldown,
\* onsite count), the sessions and the summaries stay as they are.
C6_OffTargetNoOp ==
    [][ ( Stored /\ ~GateEvent(latest_event') )
        => ( redis' = redis /\ sessions' = sessions /\ summaries' = summaries
             /\ new_count' = new_count ) ]_vars

\* a person on another camera, reported in the gate zone under an id whose
\* dwell would have counted as an entry
C6_Witness ==
    /\ latest_event.object_type = "person"
    /\ latest_event.camera_id # gate_camera
    /\ InZone(latest_event)
    /\ Dwelt(latest_event)
    /\ ~Marked(latest_event, "entry")
    /\ sessions = << >>

----------------------------------------------------------------------------
(* C7 *)

TotalExits(rows, d) == IF d \in DOMAIN rows THEN rows[d].total_exits ELSE 0
TotalEntries(rows, d) == IF d \in DOMAIN rows THEN rows[d].total_entries ELSE 0

\* C7: an exit recorded while no session is active creates and changes no
\* session, still decrements the onsite count (floored at 0) and adds
\* exactly 1 to the day's total_exits.
C7_OrphanedExit ==
    [][ ( ExitFired /\ ActiveRows(sessions) = {} )
        => /\ sessions' = sessions
           /\ Count' = Max(0, Count - 1)
           /\ new_count' = Count'
           /\ today \in DOMAIN summaries'
           /\ summaries'[today].total_exits = TotalExits(summaries, today) + 1
           /\ summaries'[today].total_entries = TotalEntries(summaries, today) ]_vars

\* an exit without any session decremented a count of 2
C7_Witness ==
    /\ sessions = << >>
    /\ new_count = 1
    /\ \E d \in DOMAIN summaries :
           /\ summaries[d].total_exits = 1
           /\ summaries[d].total_entries = 0
           /\ summaries[d].current_onsite = 1
    /\ redis_exists(redis, "attendance:counted:exit:d1")

----------------------------------------------------------------------------
(* C8 *)

\* C8: an exit recorded while sessions are active closes exactly one of
\* them, an active session of greatest entry_time: its exit_time, exit_camera
\* and exit event are the event's, its status completed; no other row
\* changes, whichever detection id opened it.
C8_LifoMatch ==
    [][ ( ExitFired /\ ActiveRows(sessions) # {} )
        => /\ Len(sessions') = Len(sessions)
           /\ \E i \in ActiveRows(sessions) :
                /\ \A j \in ActiveRows(sessions) :
                       sessions[j].entry_time <= sessions[i].entry_time
                /\ sessions'[i] =
                       [sessions[i] EXCEPT !.exit_time = latest_event'.timestamp,
                                           !.exit_camera = latest_event'.camera_id,
                                           !.exit_event_id = latest_event'.id,
                                           !.status = completed,
                                           !.duration_minutes = sessions'[i].duration_minutes]
                /\ \A j \in 1..Len(sessions) : j # i => sessions'[j] = sessions[j] ]_vars

\* of two sessions the later one was closed, the earlier one is still active
C8_Witness ==
    /\ Len(sessions) = 2
    /\ sessions[1].entry_time < sessions[2].entry_time
    /\ sessions[1].status = active
    /\ sessions[2].status = completed
    /\ sessions[2].exit_camera = gate_camera
    /\ latest_event.id = sessions[2].exit_event_id

----------------------------------------------------------------------------
(* C9 *)

\* the sessions open right after event k
Running(rows, k) ==
    Cardinality({i \in 1..Len(rows) :
                    /\ rows[i].entry_event_id <= k
                    /\ rows[i].exit_event_id = NULL \/ rows[i].exit_event_id > k})
MaxRunning(rows) ==
    CHOOSE m \in 0..Len(rows) :
        /\ \E k \in 0..latest_event.id : Running(rows, k) = m
        /\ \A k \in 0..latest_event.id : Running(rows, k) <= m
EntryFired == Stored /\ Len(sessions') = Len(sessions) + 1
TwoEntriesThenOneExit ==
    /\ DOMAIN summaries = {today}
    /\ Len(sessions) = 2
    /\ summaries[today].total_exits = 1
    /\ \E i \in 1..2 :
           /\ sessions[i].status = completed
           /\ \A j \in 1..2 : sessions[i].exit_event_id > sessions[j].entry_event_id

\* C9: while the only summary is today's (every entry and exit so far fell
\* on this day, the counter started at 0), its total_entries is the number
\* of entries, its current_onsite the running count floored at 0 and its
\* peak_onsite the greatest running count reached; every recorded entry adds
\* 1 to total_entries alone and every recorded exit 1 to total_exits alone;
\* two entries followed by one exit give peak 2, entries 2, exits 1, onsite 1.
C9_Tallies ==
    /\ [](DOMAIN summaries = {today}
          => /\ summaries[today].total_entries = Len(sessions)
             /\ summaries[today].current_onsite = Cardinality(ActiveRows(sessions))
             /\ summaries[today].current_onsite = Count
             /\ summaries[today].peak_onsite = MaxRunning(sessions))
    /\ [](TwoEntriesThenOneExit
          => /\ summaries[today].peak_onsite = 2
             /\ summaries[today].total_entries = 2
             /\ summaries[today].current_onsite = 1)
    /\ [][ /\ EntryFired
             => /\ today \in DOMAIN summaries'
                /\ summaries'[today].total_entries = TotalEntries(summaries, today) + 1
                /\ summaries'[today].total_exits = TotalExits(summaries, today)
           /\ ExitFired
             => /\ today \in DOMAIN summaries'
                /\ summaries'[today].total_exits = TotalExits(summaries, today) + 1
                /\ summaries'[today].total_entries = TotalEntries(summaries, today)
           /\ ~EntryFired /\ ~ExitFired => summaries' = summaries ]_vars

\* two entries, then one exit, all on one day
C9_Witness ==
    /\ TwoEntriesThenOneExit
    /\ summaries[today].peak_onsite = 2
    /\ summaries[today].total_entries = 2
    /\ summaries[today].total_exits = 1
    /\ summaries[today].current_onsite = 1

----------------------------------------------------------------------------
(* C10 *)

\* C10: the first in-zone event of a fresh detection id only writes the
\* presence record, with the event's timestamp, and records no entry; an
\* in-zone event 1.5 s (3 half seconds) after the record's entry timestamp,
\* the id not yet marked, records exactly one entry: a session whose
\* entry_time is the event's timestamp, and the onsite count one higher
\* (0 to 1 when it was 0).
C10_Scenario1 ==
    [][ ( Stored /\ GateEvent(latest_event') /\ InZone(latest_event') )
        => /\ ( /\ ~Presence(latest_event')
                /\ ~Cooling(latest_event')
                /\ ~Marked(latest_event', "entry") )
              => /\ redis_exists(redis', zone_entry_key(latest_event'))
                 /\ redis'[zone_entry_key(latest_event')].value = latest_event'.timestamp
                 /\ NothingRecorded
           /\ ( /\ Presence(latest_event')
                /\ latest_event'.timestamp - redis[zone_entry_key(latest_event')].value = 3
                /\ ~Marked(latest_event', "entry") )
              => /\ OneEntryRecorded(latest_event')
                 /\ sessions'[Len(sessions')].entry_time = latest_event'.timestamp
                 /\ redis'[zone_entry_key(latest_event')] = redis[zone_entry_key(latest_event')]
                 /\ Count = 0 => Count' = 1 ]_vars

\* d1 seen in the zone at t = 0 and again at t = 1.5 s: one session, entered
\* at 1.5 s, count 1
C10_Witness ==
    /\ latest_event.id = 2
    /\ latest_event.frigate_event_id = "d1"
    /\ latest_event.timestamp = 3
    /\ Len(sessions) = 1
    /\ sessions[1].entry_time = 3
    /\ sessions[1].entry_event_id = 2
    /\ Count = 1
    /\ Presence(latest_event)
    /\ redis[zone_entry_key(latest_event)].value = 0

----------------------------------------------------------------------------
(* C11 *)

\* Scenario 2 on the lattice of instants: after the entry of scenario 1
\* (events 1 and 2 in the zone, session 1 opened by event 2 under the id's
\* entry marker), events 3 and 4 are out-of-zone events of the same id,
\* min_zone_duration or more apart,
\* all delivered before the presence record (created at the first event,
\* zone_entry_ttl) could expire.
Scenario2 ==
    /\ Stored
    /\ latest_event.id = 3
    /\ Len(sessions) = 1
    /\ sessions[1].entry_event_id = 2
    /\ Marked(latest_event, "entry")
    /\ GateEvent(latest_event) /\ ~InZone(latest_event)
    /\ GateEvent(latest_event') /\ ~InZone(latest_event')
    /\ latest_event'.frigate_event_id = latest_event.frigate_event_id
    /\ latest_event'.frigate_event_id = "d1"
    /\ latest_event'.timestamp - latest_event.timestamp >= min_zone_duration
    /\ now < zone_entry_ttl

\* C11 as stated: the two out-of-zone events produce exactly one exit, it is
\* recorded at the second of them (the closed session's exit_time is the
\* second event's timestamp), and the onsite count goes 1 to 0.
C11_ExitAtSecondEvent ==
    [][ Scenario2
        => /\ sessions'[1].status = completed
           /\ sessions'[1].exit_time = latest_event'.timestamp
           /\ Count' = 0
           /\ summaries'[today].total_exits = 1 ]_vars

\* C11 (amended): the two out-of-zone events produce exactly one exit, it is
\* recorded at the first of them (the closed session's exit_time is the first
\* event's timestamp, the count went 1 to 0 there and the presence record
\* was deleted), and the second event records nothing.
C11_ExitAtFirstEvent ==
    [][ Scenario2
        => /\ sessions[1].status = completed
           /\ sessions[1].exit_time = latest_event.timestamp
           /\ sessions[1].exit_event_id = latest_event.id
           /\ Count = 0
           /\ summaries[today].total_exits = 1
           /\ summaries[today].total_entries = 1
           /\ ~Presence(latest_event')
           /\ NothingRecorded
           /\ ~redis_exists(redis', zone_entry_key(latest_event')) ]_vars

\* d1 entered at 1.5 s, was seen out of the zone at 15 s and at 16.5 s: the
\* session is closed at 15 s, the count is back to 0
C11_Witness ==
    /\ latest_event.id = 4
    /\ latest_event.frigate_event_id = "d1"
    /\ GateEvent(latest_event) /\ ~InZone(latest_event)
    /\ latest_event.timestamp = cooldown_seconds + 3
    /\ Len(sessions) = 1
    /\ sessions[1].entry_time = 3
    /\ sessions[1].entry_event_id = 2
    /\ sessions[1].status = completed
    /\ sessions[1].exit_event_id = 3
    /\ sessions[1].exit_time = cooldown_seconds
    /\ Count = 0
    /\ now < zone_entry_ttl

----------------------------------------------------------------------------
(* C12 *)

\* the step recorded an exit: a day's total_exits grew
ExitRecorded == \E d \in DOMAIN summaries' : summaries'[d].total_exits > TotalExits(summaries, d)
NoExitRecorded ==
    /\ ~ExitRecorded
    /\ ActiveRows(sessions) \subseteq ActiveRows(sessions')
    /\ Count' >= Count

\* C12: an event of a detection id whose exit marker is alive records no
\* exit (no session closed, no decrement, total_exits unchanged) and leaves
\* the marker as it is; every recorded exit sets the id's exit marker with an
\* expiry counted_ttl (60 s) ahead, and a marker stays until its expiry: so
\* no two exits of one id are recorded less than 60 s apart.
C12_OneExitPerMarker ==
    [][ /\ ( Stored /\ GateEvent(latest_event') /\ Marked(latest_event', "exit") )
             => /\ NoExitRecorded
                /\ redis_exists(redis', counted_key(latest_event', "exit"))
                /\ redis'[counted_key(latest_event', "exit")]
                       = redis[counted_key(latest_event', "exit")]
        /\ ( Stored /\ ExitRecorded )
             => /\ GateEvent(latest_event') /\ ~InZone(latest_event')
                /\ ~Marked(latest_event', "exit")
                /\ redis_exists(redis', counted_key(latest_event', "exit"))
                /\ redis'[counted_key(latest_event', "exit")].expire_at = now + counted_ttl
        /\ \A d \in TrackerIds :
             LET key == "attendance:counted:exit:" \o d
             IN ( redis_exists(redis, key) /\ now' < redis[key].expire_at )
                => ( redis_exists(redis', key) /\ redis'[key] = redis[key] ) ]_vars

\* d1 was seen out of the zone again within the life of its exit marker: the
\* marker of the first exit is still the one in place and only one exit is on
\* record
C12_Witness ==
    /\ GateEvent(latest_event) /\ ~InZone(latest_event)
    /\ latest_event.frigate_event_id = "d1"
    /\ latest_event.id = 4
    /\ latest_event.timestamp = now
    /\ Marked(latest_event, "exit")
    /\ redis[counted_key(latest_event, "exit")].expire_at < now + counted_ttl
    /\ redis[counted_key(latest_event, "exit")].expire_at > counted_ttl
    /\ ~Presence(latest_event)
    /\ sessions = << >>
    /\ DOMAIN summaries = {today}
    /\ summaries[today].total_exits = 1

----------------------------------------------------------------------------
(* C13 *)

\* C13: after every recorded entry or exit the current_onsite of the day's
\* summary is the onsite count as stored after the increment or decrement of
\* the same event (the value that call returned), whatever the totals and
\* the previous current_onsite are.
C13_CurrentOnsiteResynchronised ==
    [][ ( EntryFired \/ ExitFired )
        => /\ today \in DOMAIN summaries'
           /\ summaries'[today].current_onsite = Count'
           /\ summaries'[today].current_onsite = new_count'
           /\ EntryFired => Count' = Count + 1
           /\ ExitFired => Count' = Max(0, Count - 1) ]_vars

\* the counter was set to 2 from outside and an entry followed: the summary
\* shows 3 onsite with one entry and no exit
C13_Witness ==
    /\ DOMAIN summaries = {today}
    /\ summaries[today].total_entries = 1
    /\ summaries[today].total_exits = 0
    /\ summaries[today].current_onsite = 3
    /\ Count = 3
    /\ new_count = 3
    /\ Len(sessions) = 1

----------------------------------------------------------------------------
(* C14 *)

\* C14: every session is either active with exit_time, exit_camera and
\* duration_minutes unset, or completed with exit_time and duration_minutes
\* set; no session is ever abandoned.
C14_ActiveOrCompleted ==
    \A i \in 1..Len(sessions) :
        \/ /\ sessions[i].status = active
           /\ sessions[i].exit_time = NULL
           /\ sessions[i].exit_camera = NULLSTR
           /\ sessions[i].duration_minutes = NULL
        \/ /\ sessions[i].status = completed
           /\ sessions[i].exit_time # NULL
           /\ sessions[i].duration_minutes # NULL

\* one session closed and one still open
C14_Witness ==
    /\ Len(sessions) = 2
    /\ \E i, j \in 1..2 :
           /\ sessions[i].status = completed
           /\ sessions[i].exit_time # NULL
           /\ sessions[i].duration_minutes # NULL
           /\ sessions[j].status = active
           /\ sessions[j].exit_time = NULL

----------------------------------------------------------------------------
(* C15 *)

\* the length of session 1 in half seconds
Elapsed == sessions[1].exit_time - sessions[1].entry_time

\* C15: the duration_minutes of a closed session is its length in seconds
\* divided by 60 and rounded to the nearest integer (45 s give 1, 90 s give
\* 2), for every length in whole seconds.
C15_RoundedToNearest ==
    sessions[1].duration_minutes # NULL
    => /\ 2 * sessions[1].duration_minutes * minute - minute <= 2 * Elapsed
       /\ 2 * Elapsed <= 2 * sessions[1].duration_minutes * minute + minute
       /\ Elapsed = 90 => sessions[1].duration_minutes = 1
       /\ Elapsed = 180 => sessions[1].duration_minutes = 2

----------------------------------------------------------------------------
(* C16 *)

\* in the keyspace r, an in-zone (out-of-zone) event e would record an entry
\* (exit): the dwell is reached and no marker or cooldown stands in the way
EntryDue(r, e) ==
    /\ ~redis_exists(r, cooldown_key(detection_key(e)))
    /\ redis_exists(r, zone_entry_key(e))
    /\ e.timestamp - r[zone_entry_key(e)].value >= min_zone_duration
    /\ ~redis_exists(r, counted_key(e, "entry"))
ExitDue(r, e) ==
    /\ redis_exists(r, zone_entry_key(e))
    /\ e.timestamp - r[zone_entry_key(e)].value >= min_zone_duration
    /\ ~redis_exists(r, counted_key(e, "exit"))

\* C16: when the recording of a due entry or exit fails (the session commit,
\* the counter update or the summary commit raises), the entry or exit marker
\* and the cooldown of the detection id are not set and its presence record
\* stays: the same event delivered again is due again; the markers are set
\* when the recording returns.
C16_NoMarkerOnFailure ==
    [][ ( Stored /\ GateEvent(latest_event') )
        => /\ ( InZone(latest_event') /\ EntryDue(redis, latest_event') )
              => IF raised' # "none"
                 THEN EntryDue(redis', latest_event')
                 ELSE /\ redis_exists(redis', counted_key(latest_event', "entry"))
                      /\ redis_exists(redis', cooldown_key(detection_key(latest_event')))
           /\ ( ~InZone(latest_event') /\ ExitDue(redis, latest_event') )
              => IF raised' # "none"
                 THEN ExitDue(redis', latest_event')
                 ELSE redis_exists(redis', counted_key(latest_event', "exit")) ]_vars

\* the summary commit failed while an entry was recorded: the session is
\* there, the event is still due
C16_Witness ==
    /\ raised = "summary_commit"
    /\ GateEvent(latest_event) /\ InZone(latest_event)
    /\ EntryDue(redis, latest_event)
    /\ Len(sessions) = 1
    /\ sessions[1].entry_event_id = latest_event.id
    /\ Count = 1
    /\ summaries = << >>

----------------------------------------------------------------------------
(* C17 *)

\* C17: when a call fails part-way through the recording of an entry or exit
\* (the session commit, the counter update or the summary commit raises),
\* the sessions, the onsite count and the summaries are those of before the
\* event.
C17_RolledBack ==
    [][ ( Stored /\ GateEvent(latest_event') /\ raised' # "none" )
        => /\ sessions' = sessions
           /\ Count' = Count
           /\ summaries' = summaries ]_vars

----------------------------------------------------------------------------
(* C18 *)

\* C18: an event of the gate processed while Redis cannot be reached fails
\* with the Redis error: no presence record or other key is written, no entry
\* or exit is recorded, the counter, the sessions and the summaries stay as
\* they are.
C18_FailsWhenUnreachable ==
    [][ ( Stored /\ GateEvent(latest_event') /\ ~reachable )
        => /\ raised' = "redis_unreachable"
           /\ redis' = redis
           /\ sessions' = sessions
           /\ summaries' = summaries
           /\ new_count' = new_count ]_vars

\* Redis went away after d1 had dwelt in the zone: the event that would have
\* recorded the entry failed
C18_Witness ==
    /\ ~reachable
    /\ raised = "redis_unreachable"
    /\ GateEvent(latest_event) /\ InZone(latest_event)
    /\ EntryDue(redis, latest_event)
    /\ sessions = << >>
    /\ Count = 0

----------------------------------------------------------------------------
(* C19 *)

\* C19: no get_onsite_count that runs beside a decrement_onsite (one called
\* at a stored 0 included) returns a negative value: the stored count is 0
\* or more in every state, the states inside a decrement_onsite included.
C19_NoNegativeIntermediate ==
    /\ observed >= 0
    /\ redis_exists(redis, onsite_key) => redis[onsite_key].value >= 0

----------------------------------------------------------------------------
(* C20 *)

\* the callers whose call has returned, and the orders they can be put in
Returned == {c \in Callers : calls[c].pc = "done"}
Quiescent == \A c \in Callers : calls[c].pc \in {"idle", "done"}
Orders(S) ==
    {q \in [1..Cardinality(S) -> S] : \A a, b \in 1..Cardinality(S) : a # b => q[a] # q[b]}

\* the calls of q[i], q[i+1], ..., run one after the other from the keyspace
\* r, return what the callers got and leave the stored count as it is now
RECURSIVE SerialRun(_, _, _)
SerialRun(q, i, r) ==
    IF i > Cardinality(DOMAIN q)
    THEN get_onsite_count(r) = get_onsite_count(redis)
    ELSE LET call == calls[q[i]]
             inc == increment_onsite(r)
             dec == decrement_onsite(r)
         IN CASE call.op = "increment" ->
                     inc.ret = call.ret /\ SerialRun(q, i + 1, inc.redis)
              [] call.op = "decrement" ->
                     dec.ret = call.ret /\ SerialRun(q, i + 1, dec.redis)
              [] call.op = "set" ->
                     SerialRun(q, i + 1, set_onsite_count_to(r, call.count))

\* C20: increment_onsite, decrement_onsite and set_onsite_count are atomic
\* with respect to each other: whenever no call is under way, the stored
\* count and the values the calls returned are those of the same calls run
\* one after the other in some order, from the empty keyspace.
C20_Linearizable ==
    Quiescent
    => \E q \in Orders(Returned) :
           SerialRun(q, 1, [k \in {} |-> [value |-> 0, expire_at |-> NULL]])

----------------------------------------------------------------------------
(* C21 *)

PersonMinutes(rows, d) == IF d \in DOMAIN rows THEN rows[d].total_person_minutes ELSE 0

\* C21: whenever an exit closes a session with duration_minutes = m, the
\* total_person_minutes of the day's summary grows by m.
C21_PersonMinutesAccumulate ==
    [][ \A i \in 1..Len(sessions) :
          ( ExitFired /\ sessions[i].status = active /\ sessions'[i].status = completed )
          => /\ today \in DOMAIN summaries'
             /\ summaries'[today].total_person_minutes
                    = PersonMinutes(summaries, today) + sessions'[i].duration_minutes ]_vars

----------------------------------------------------------------------------
(* C22 *)

\* C22: whenever an entry is due (and whenever a session appears), exactly
\* one session is added, active, with the event's timestamp as entry_time
\* and its camera as entry_camera and the exit columns unset; the onsite
\* count grows by exactly 1, the day's total_entries by exactly 1 and its
\* total_exits not at all; no existing session changes, however many are
\* active.
C22_OpenSession ==
    [][ ( \/ EntryFired
          \/ /\ Stored /\ GateEvent(latest_event') /\ InZone(latest_event')
             /\ EntryDue(redis, latest_event') )
        => /\ Len(sessions') = Len(sessions) + 1
           /\ SubSeq(sessions', 1, Len(sessions)) = sessions
           /\ sessions'[Len(sessions')] = AttendanceSession(Len(sessions) + 1, latest_event')
           /\ sessions'[Len(sessions')].status = active
           /\ sessions'[Len(sessions')].entry_time = latest_event'.timestamp
           /\ sessions'[Len(sessions')].entry_camera = latest_event'.camera_id
           /\ Count' = Count + 1
           /\ new_count' = Count'
           /\ today \in DOMAIN summaries'
           /\ summaries'[today].total_entries = TotalEntries(summaries, today) + 1
           /\ summaries'[today].total_exits = TotalExits(summaries, today) ]_vars

\* a second session opened while the first is still active
C22_Witness ==
    /\ Len(sessions) = 2
    /\ sessions[1].status = active
    /\ sessions[2].status = active
    /\ sessions[2].entry_event_id = latest_event.id
    /\ sessions[2].entry_time = latest_event.timestamp
    /\ sessions[2].entry_camera = gate_camera
    /\ Count = 2
    /\ DOMAIN summaries = {today}
    /\ summaries[today].total_entries = 2


----------------------------------------------------------------------------
(* C23, C24: event processors side by side *)

\* the sessions opened for the events of detection id `d` by the processors
OpenedFor(d) ==
    {i \in 1..Len(sessions) :
        \E w \in Workers : /\ handlers[w].event.id = sessions[i].entry_event_id
                           /\ handlers[w].event.frigate_event_id = d}

\* no processor is inside _handle_zone_entry, none has failed
Settled == \A w \in Workers : handlers[w].pc \in {"idle", "done"}

\* C23: when two in-zone events of one detection id that both satisfy the
\* dwell are processed side by side, at most one of them records the entry:
\* at most one session is opened for the id, and the counter is incremented
\* at most once for it.
C23_OneEntryPerId ==
    /\ \A d \in TrackerIds : Cardinality(OpenedFor(d)) <= 1
    /\ Count <= Cardinality({d \in TrackerIds : OpenedFor(d) # {}})

\* C24: when the summary updates of two entries of one day run side by side
\* and both have committed, none is lost: the row's total_entries has grown
\* by one per recorded entry.  The entries are those of different persons:
\* no detection id has two sessions.
C24_NoLostUpdate ==
    ( /\ Settled
      /\ today \in DOMAIN summaries
      /\ \A d \in TrackerIds : Cardinality(OpenedFor(d)) <= 1 )
    => summaries[today].total_entries = Len(sessions)


----------------------------------------------------------------------------
(* C25: set_onsite_count *)

\* the caller c runs set_onsite_count in this step
SetBy(c) == calls[c].pc = "idle" /\ calls'[c].op = "set"

\* C25: after set_onsite_count(n), for n negative, zero or positive,
\* get_onsite_count returns n when n is positive and 0 otherwise, whatever
\* was stored before and whatever the other callers are in the middle of.
C25_SetClamps ==
    [][ \A c \in Callers :
          SetBy(c) => get_onsite_count(redis') =
                          (IF calls'[c].count < 0 THEN 0 ELSE calls'[c].count) ]_vars

\* the count was 1 (the increment returned 1) when set_onsite_count(-1) ran:
\* 0 is stored
C25_Witness ==
    /\ calls[1] = [op |-> "set", count |-> -1, pc |-> "done", ret |-> NULL]
    /\ calls[2].op = "increment" /\ calls[2].ret = 1
    /\ redis_exists(redis, onsite_key)
    /\ get_onsite_count(redis) = 0


----------------------------------------------------------------------------
(* C26: an in-zone event during the cooldown *)

\* C26: an in-zone event of a detection id whose cooldown marker is alive is
\* suppressed altogether: no key of Redis is written, changed or deleted (no
\* presence record, no marker, the counter as it was), no session is opened
\* or changed and the summaries stay as they are; so too when the presence
\* record of the id is gone.
C26_CooldownSuppresses ==
    [][ ( Stored /\ GateEvent(latest_event') /\ InZone(latest_event')
          /\ Cooling(latest_event') )
        => /\ redis' = redis
           /\ sessions' = sessions
           /\ summaries' = summaries
           /\ new_count' = new_count ]_vars

\* The entry of d1 was recorded; its presence record has expired since (no
\* out-of-zone event has deleted it: that would have left an exit marker),
\* the cooldown is alive, and the in-zone event delivered now has left no
\* presence record.
C26_Witness ==
    /\ Len(sessions) = 1
    /\ latest_event.id > sessions[1].entry_event_id
    /\ GateEvent(latest_event) /\ InZone(latest_event)
    /\ Cooling(latest_event)
    /\ ~Presence(latest_event)
    /\ ~Marked(latest_event, "exit")
    /\ Marked(latest_event, "entry")
    /\ latest_event.timestamp = now


----------------------------------------------------------------------------
(* C27: what an out-of-zone event deletes *)

\* C27: after an out-of-zone person event of the gate camera is processed,
\* the detection id has no presence record, whether or not an exit was
\* counted and whether or not the id's exit marker existed; no other key is
\* deleted, and every other key but the id's exit marker and the counter
\* (the entry markers, the cooldown markers, the keys of other ids) is as it
\* was.
C27_ExitClearsPresenceOnly ==
    [][ ( Stored /\ GateEvent(latest_event') /\ ~InZone(latest_event') )
        => /\ ~redis_exists(redis', zone_entry_key(latest_event'))
           /\ \A k \in DOMAIN redis \ {zone_entry_key(latest_event')} :
                 /\ k \in DOMAIN redis'
                 /\ k \notin {counted_key(latest_event', "exit"), onsite_key}
                        => redis'[k] = redis[k] ]_vars

\* the out-of-zone event of d1 delivered now found the exit marker, set at
\* an earlier time: d1 has no presence record, its entry marker and cooldown
\* marker and the presence record of d2 are there
C27_Witness ==
    /\ GateEvent(latest_event) /\ ~InZone(latest_event)
    /\ latest_event.frigate_event_id = "d1"
    /\ ~Presence(latest_event)
    /\ Marked(latest_event, "entry")
    /\ Marked(latest_event, "exit")
    /\ latest_event.timestamp = now
    /\ redis[counted_key(latest_event, "exit")].expire_at < now + counted_ttl
    /\ Cooling(latest_event)
    /\ redis_exists(redis, "attendance:zone_entry:" \o gate_camera \o ":d2")


----------------------------------------------------------------------------
(* C28: the presence record is written once *)

PresenceKeys == {"attendance:zone_entry:" \o gate_camera \o ":" \o d : d \in TrackerIds}

\* C28: a presence record that exists is changed by no step: it keeps its
\* timestamp and its expiry (in-zone events of the id do not refresh it)
\* until it is deleted by an out-of-zone event of the id or until its expiry,
\* 30 s after it was written, is reached.
C28_PresenceWrittenOnce ==
    [][ \A k \in PresenceKeys \cap DOMAIN redis :
          \/ k \in DOMAIN redis' /\ redis'[k] = redis[k]
          \/ /\ k \notin DOMAIN redis'
             /\ \/ /\ Stored /\ GateEvent(latest_event') /\ ~InZone(latest_event')
                   /\ k = zone_entry_key(latest_event')
                \/ now' > now /\ now' >= redis[k].expire_at ]_vars

\* the in-zone event delivered now, later than the frame and the time at
\* which the presence record of its id was written, has left the record as
\* it was
C28_Witness ==
    /\ GateEvent(latest_event) /\ InZone(latest_event)
    /\ latest_event.timestamp = now
    /\ Presence(latest_event)
    /\ redis[zone_entry_key(latest_event)].value < latest_event.timestamp
    /\ redis[zone_entry_key(latest_event)].expire_at < now + zone_entry_ttl


----------------------------------------------------------------------------
(* C29: every debounce key expires *)

EntryMarkerKeys == {"attendance:counted:entry:" \o d : d \in TrackerIds}
ExitMarkerKeys == {"attendance:counted:exit:" \o d : d \in TrackerIds}
CooldownKeys == {"attendance:cooldown:detection_" \o d : d \in TrackerIds}

\* the lifetimes of the claim: 30 s, 60 s, 60 s and 15 s
Lifetime(k) ==
    IF k \in PresenceKeys THEN 60
    ELSE IF k \in EntryMarkerKeys \cup ExitMarkerKeys THEN 120
    ELSE IF k \in CooldownKeys THEN 30
    ELSE NULL

DebounceEmpty == DOMAIN redis \subseteq {onsite_key}

\* C29: every key written to Redis is the onsite counter, written without
\* expiry, or a presence record, entry marker, exit marker or cooldown
\* marker, written with an expiry 30 s, 60 s, 60 s and 15 s after the write;
\* the counter, once written, stays; and unless events keep being stored
\* for ever, the debounce keys are all gone again and again.
C29_DebounceStateExpires ==
    /\ [][ \A k \in DOMAIN redis' :
             ( k \notin DOMAIN redis \/ redis'[k] # redis[k] )
             => IF k = onsite_key
                THEN redis'[k].expire_at = NULL
                ELSE /\ Lifetime(k) # NULL
                     /\ redis'[k].expire_at = now' + Lifetime(k) ]_vars
    /\ [][ redis_exists(redis, onsite_key) => redis_exists(redis', onsite_key) ]_vars
    /\ ( []<>DebounceEmpty \/ []<><<Stored>>_vars )

\* a session was opened and closed (presence record, both markers and the
\* cooldown marker were written), and all of them have expired: the counter
\* is the only key
C29_Witness ==
    /\ Len(sessions) = 1
    /\ sessions[1].status = completed
    /\ sessions[1].exit_time > sessions[1].entry_time
    /\ DOMAIN redis = {onsite_key}
    /\ redis[onsite_key] = [value |-> 0, expire_at |-> NULL]


----------------------------------------------------------------------------
(* C30: completed sessions *)

\* C30: a session that is completed keeps its status, exit_time,
\* exit_camera and duration_minutes in every later step, whatever events
\* follow.
C30_CompletedIsTerminal ==
    [][ \A i \in 1..Len(sessions) :
          sessions[i].status = completed
          => /\ Len(sessions') >= i
             /\ sessions'[i].status = completed
             /\ sessions'[i].exit_time = sessions[i].exit_time
             /\ sessions'[i].exit_camera = sessions[i].exit_camera
             /\ sessions'[i].duration_minutes = sessions[i].duration_minutes ]_vars

\* the only session was closed by an earlier event; the out-of-zone event
\* delivered now, later than that exit, has recorded a second exit and has
\* left the session as it was
C30_Witness ==
    /\ Len(sessions) = 1
    /\ sessions[1].status = completed
    /\ sessions[1].exit_event_id < latest_event.id
    /\ sessions[1].exit_time < latest_event.timestamp
    /\ GateEvent(latest_event) /\ ~InZone(latest_event)
    /\ latest_event.timestamp = now
    /\ today \in DOMAIN summaries /\ summaries[today].total_exits = 2
    /\ redis[counted_key(latest_event, "exit")].expire_at = now + counted_ttl


----------------------------------------------------------------------------
(* C31: the counter and the active sessions *)

\* C31: when events are processed one after the other and no call fails,
\* from a counter of 0 and no session, and set_onsite_count is not called,
\* the onsite count is the number of active sessions after every event,
\* also after exits that found no session to close.
C31_CountIsActiveSessions ==
    get_onsite_count(redis) = Cardinality({i \in 1..Len(sessions) : sessions[i].status = active})

\* an exit that found no session was recorded, then an entry: one session,
\* active, and a count of 1
C31_Witness ==
    /\ Len(sessions) = 1
    /\ sessions[1].status = active
    /\ today \in DOMAIN summaries
    /\ summaries[today].total_exits = 1
    /\ summaries[today].total_entries = 1
    /\ get_onsite_count(redis) = 1


----------------------------------------------------------------------------
(* C32: the rows of the daily summary *)

\* C32: in every state, every daily summary has peak_onsite >= current_onsite
\* >= 0; and in every step, a summary that exists stays and its
\* total_entries and total_exits do not decrease.
C32_SummaryBounds ==
    /\ [](\A d \in DOMAIN summaries :
             /\ summaries[d].peak_onsite >= summaries[d].current_onsite
             /\ summaries[d].current_onsite >= 0)
    /\ [][ \A d \in DOMAIN summaries :
             /\ d \in DOMAIN summaries'
             /\ summaries'[d].total_entries >= summaries[d].total_entries
             /\ summaries'[d].total_exits >= summaries[d].total_exits ]_vars

\* one entry and one exit were recorded, the count was set from outside in
\* between: the day's peak, 2, is above its current count, 1
C32_Witness ==
    /\ today \in DOMAIN summaries
    /\ summaries[today].total_entries = 1
    /\ summaries[today].total_exits = 1
    /\ summaries[today].current_onsite = 1
    /\ summaries[today].peak_onsite = 2


----------------------------------------------------------------------------
(* C33: an exit without an entry *)

\* an out-of-zone event of the gate is stored in this step
OutOfZoneStored == Stored /\ GateEvent(latest_event') /\ ~InZone(latest_event')

\* C33, as claimed: an exit is recorded for a detection id only if an entry
\* was recorded for it before; so, while no entry has been recorded at all,
\* an out-of-zone event records no exit: total_exits, the sessions and the
\* count stay as they are.
C33_ExitOnlyAfterEntry ==
    [][ ( OutOfZoneStored /\ Len(sessions) = 0 )
        => /\ ~ExitRecorded
           /\ sessions' = sessions
           /\ Count' = Count ]_vars

\* C33, amended: an exit is recorded whether or not an entry was recorded
\* for the detection id.  An out-of-zone event that comes at least
\* min_zone_duration after the id's presence record was written, while the id
\* has no entry marker and no exit marker, records an exit: total_exits grows
\* by 1, the count is decremented (floored at 0), the exit marker is set and
\* the newest active session, if there is one, is completed; without an
\* active session the sessions stay as they are.
C33_ExitWithoutEntry ==
    [][ ( OutOfZoneStored /\ ~Marked(latest_event', "entry")
          /\ ExitDue(redis, latest_event') )
        => /\ TotalExits(summaries', today) = TotalExits(summaries, today) + 1
           /\ Count' = (IF Count >= 1 THEN Count - 1 ELSE 0)
           /\ redis_exists(redis', counted_key(latest_event', "exit"))
           /\ Len(sessions') = Len(sessions)
           /\ IF ActiveRows(sessions) = {}
              THEN sessions' = sessions
              ELSE \E i \in ActiveRows(sessions) :
                      /\ ActiveRows(sessions') = ActiveRows(sessions) \ {i}
                      /\ sessions'[i].status = completed
                      /\ sessions'[i].exit_event_id = latest_event'.id
                      /\ \A j \in ActiveRows(sessions) :
                             sessions[j].entry_time <= sessions[i].entry_time ]_vars

\* d1 was seen in the zone and no entry was recorded for it (the only entry,
\* less than a minute ago, has left one marker, and d1 has none); d1's
\* out-of-zone event delivered now has recorded an exit and completed the
\* only session
C33_Witness ==
    /\ now < counted_ttl
    /\ GateEvent(latest_event) /\ ~InZone(latest_event)
    /\ latest_event.frigate_event_id = "d1"
    /\ latest_event.timestamp = now
    /\ ~Marked(latest_event, "entry")
    /\ redis_exists(redis, counted_key(latest_event, "exit"))
    /\ redis[counted_key(latest_event, "exit")].expire_at = now + counted_ttl
    /\ Len(sessions) = 1
    /\ sessions[1].status = completed
    /\ sessions[1].exit_event_id = latest_event.id
    /\ get_onsite_count(redis) = 0


----------------------------------------------------------------------------
(* C34: a person that lingers in the zone *)

\* C34, as claimed: a detection id that stays in the gate zone (in-zone
\* events only) has at most one entry recorded, however long it stays.
C34_OneEntryHoweverLong ==
    Len(sessions) <= 1 /\ Count <= 1

\* C34, amended: a detection id that stays in the gate zone has no further
\* entry recorded while its entry marker is alive, 60 s from the recorded
\* entry, whatever becomes of its presence record and its cooldown in that
\* time: an in-zone event that finds the marker, the marker of a recorded
\* entry, records nothing and writes at most a new presence record.
C34_OneEntryPerMarker ==
    [][ ( Stored /\ Marked(latest_event', "entry") )
        => /\ sessions' = sessions
           /\ Count' = Count
           /\ summaries' = summaries
           /\ redis' = redis \/ ~Presence(latest_event')
           /\ Len(sessions) >= 1 ]_vars

\* the in-zone event delivered now finds the entry marker of an entry
\* recorded more than 30 s ago: the presence record of then and the cooldown
\* have expired, a new presence record is more than min_zone_duration old,
\* and there is one session
C34_Witness ==
    /\ Len(sessions) = 1
    /\ InZone(latest_event)
    /\ latest_event.timestamp = now
    /\ now > sessions[1].entry_time + zone_entry_ttl
    /\ Marked(latest_event, "entry")
    /\ ~Cooling(latest_event)
    /\ Dwelt(latest_event)
    /\ redis[zone_entry_key(latest_event)].value > sessions[1].entry_time
    /\ Count = 1


----------------------------------------------------------------------------
(* C35: events without a tracker id *)

\* C35: an event without a tracker id gets an id of its own, made from the
\* id of its stored row: it finds no presence record under it (its dwell is
\* 0), an in-zone event writes one with its own timestamp, and whatever the
\* events and the times between them, no entry and no exit is ever recorded:
\* no session, no summary, no counter, no marker and no cooldown.
C35_FallbackIdsNeverCount ==
    /\ [][ ( Stored /\ GateEvent(latest_event') )
           => /\ \A k \in DOMAIN redis : k # zone_entry_key(latest_event')
              /\ _get_zone_duration([redis |-> redis], latest_event') = 0
              /\ InZone(latest_event')
                    => /\ redis_exists(redis', zone_entry_key(latest_event'))
                       /\ redis'[zone_entry_key(latest_event')].value
                              = latest_event'.timestamp
                       /\ DOMAIN redis' = DOMAIN redis \cup {zone_entry_key(latest_event')}
              /\ ~InZone(latest_event') => redis' = redis ]_vars
    /\ [](/\ sessions = << >>
          /\ DOMAIN summaries = {}
          /\ DOMAIN redis \subseteq
                 {"attendance:zone_entry:" \o gate_camera \o ":event_" \o ToString(n) :
                      n \in 1..latest_event.id})

\* two in-zone events without tracker id have left a presence record each,
\* the out-of-zone event delivered now comes more than min_zone_duration
\* after both and nothing was recorded
C35_Witness ==
    /\ latest_event.id = 3
    /\ latest_event.frigate_event_id = NoId
    /\ GateEvent(latest_event) /\ ~InZone(latest_event)
    /\ latest_event.timestamp = now
    /\ DOMAIN redis = {"attendance:zone_entry:" \o gate_camera \o ":event_1",
                       "attendance:zone_entry:" \o gate_camera \o ":event_2"}
    /\ \A k \in DOMAIN redis : redis[k].value + min_zone_duration <= now
    /\ sessions = << >>


----------------------------------------------------------------------------
(* C36: the cooldown and the entry marker *)

\* C36: in every state, a detection id whose cooldown marker is alive has
\* its entry marker alive too, and the entry marker expires later than the
\* cooldown.
C36_CooldownImpliesMarker ==
    \A d \in TrackerIds :
        redis_exists(redis, "attendance:cooldown:detection_" \o d)
        => /\ redis_exists(redis, "attendance:counted:entry:" \o d)
           /\ redis["attendance:counted:entry:" \o d].expire_at
                  > redis["attendance:cooldown:detection_" \o d].expire_at

\* d1 is in its cooldown, with its entry marker; the cooldown of d2 has
\* expired and its entry marker is still there
C36_Witness ==
    /\ redis_exists(redis, "attendance:cooldown:detection_d1")
    /\ redis_exists(redis, "attendance:counted:entry:d1")
    /\ ~redis_exists(redis, "attendance:cooldown:detection_d2")
    /\ redis_exists(redis, "attendance:counted:entry:d2")
    /\ Len(sessions) = 2

====
